---- MODULE Spec2Model ----
(***************************************************************************)
(* The Tag component of components/tag/index.tsx as a state machine.       *)
(*                                                                         *)
(* One Tag instance is modelled: the props and the config context of its   *)
(* last render, the `visible` hook state, the dependency the prop-sync     *)
(* effect last ran with, the output of the last render and the trace of    *)
(* the last click on the close control.                                    *)
(*                                                                         *)
(* JavaScript values are strings: "true" / "false" / "undefined" for the   *)
(* visibility values, "absent" for a key that is not in an object.         *)
(***************************************************************************)
EXTENDS Naturals, Sequences, FiniteSets, TLC

VARIABLES
    props,       \* tagProps of the last render
    ctx,         \* the ConfigContext value of the last render
    visible,     \* the useState(true) hook state
    effectDeps,  \* [props.visible] of the last run of the effect, "unset" before mount
    phase,       \* "effects": rendered, passive effects pending; "dirty": state
                 \* changed, re-render pending; "idle": committed and settled
    rendered,    \* what the last call of InternalTag returned
    lastClick,   \* trace of the last click on the close control, NoClick before
    synced,      \* history: the value the effect last wrote, "never" before
    closedSince  \* history: setVisible(false) was called by a click since then

vars == <<props, ctx, visible, effectDeps, phase, rendered, lastClick, synced, closedSince>>

Absent == "absent"
Undefined == "undefined"

\* JavaScript truthiness of the values used for booleans and strings here
Truthy(v) == v \notin {Absent, Undefined, "false", ""}

-----------------------------------------------------------------------------
(* Collaborators that live outside components/tag/index.tsx                *)

PresetColors == {"red", "blue-inverse"}
PresetStatusColors == {"success"}

isPresetColor(color) == color \in PresetColors
isPresetStatusColor(color) == color \in PresetStatusColors

\* getPrefixCls('tag', undefined)
prefixCls == "ant-tag"

\* useStyle(prefixCls): [wrapCSSVar, hashId, cssVarCls]
hashId == "css-hash"
cssVarCls == "css-var"

\* classNames(...): the truthy string arguments and the keys of the object
\* argument whose value is truthy.  The object is a literal with computed
\* keys, so of two entries with the same key the later one decides.
ClassMapKeys(entries) ==
    { entries[i][1] : i \in { j \in 1..Len(entries) :
          /\ entries[j][2]
          /\ \A k \in (j+1)..Len(entries) : entries[k][1] # entries[j][1] } }

StringArg(s) == IF Truthy(s) THEN {s} ELSE {}

-----------------------------------------------------------------------------
(* The render function                                                     *)

\* props.visible (a missing key reads as undefined)
PropVisible(p) == IF p.visible = Absent THEN Undefined ELSE p.visible

\* 'visible' in props
VisibleInProps(p) == p.visible # Absent

isInternalColor(color) == isPresetColor(color) \/ isPresetStatusColor(color)

\* mutant: the color becomes the inline background although it is a preset
tagStyle_ColorAlways(p, c) ==
    LET own == IF Truthy(p.color) THEN p.color ELSE Undefined
        withCtx == IF c.tagStyleBg # Absent THEN c.tagStyleBg ELSE own
    IN  IF p.styleBg # Absent THEN p.styleBg ELSE withCtx

\* { backgroundColor: color && !isInternalColor ? color : undefined,
\*   ...tag?.style, ...style }.backgroundColor
tagStyle(p, c) ==
    LET own == IF Truthy(p.color) /\ ~isInternalColor(p.color) THEN p.color ELSE Undefined
        withCtx == IF c.tagStyleBg # Absent THEN c.tagStyleBg ELSE own
    IN  IF p.styleBg # Absent THEN p.styleBg ELSE withCtx

ColorSuffix(color) == IF color = Absent THEN Undefined ELSE color

\* mutant: the conditions of the two color classes are swapped
tagClassName_SwappedColorSwitch(p, c, vis) ==
    {prefixCls}
    \cup StringArg(c.tagClassName)
    \cup ClassMapKeys(<<
            <<prefixCls \o "-" \o ColorSuffix(p.color), Truthy(p.color) /\ ~isInternalColor(p.color)>>,
            <<prefixCls \o "-has-color", isInternalColor(p.color)>>,
            <<prefixCls \o "-hidden", ~Truthy(vis)>>,
            <<prefixCls \o "-rtl", c.direction = "rtl">>,
            <<prefixCls \o "-borderless", ~p.bordered>> >>)
    \cup StringArg(p.className)
    \cup StringArg(hashId)
    \cup StringArg(cssVarCls)

\* classNames(prefixCls, tag?.className, { ... }, className, rootClassName,
\* hashId, cssVarCls); rootClassName is not passed by the hosts modelled
tagClassName(p, c, vis) ==
    {prefixCls}
    \cup StringArg(c.tagClassName)
    \cup ClassMapKeys(<<
            <<prefixCls \o "-" \o ColorSuffix(p.color), isInternalColor(p.color)>>,
            <<prefixCls \o "-has-color", Truthy(p.color) /\ ~isInternalColor(p.color)>>,
            <<prefixCls \o "-hidden", ~Truthy(vis)>>,
            <<prefixCls \o "-rtl", c.direction = "rtl">>,
            <<prefixCls \o "-borderless", ~p.bordered>> >>)
    \cup StringArg(p.className)
    \cup StringArg(hashId)
    \cup StringArg(cssVarCls)

-----------------------------------------------------------------------------
(* The close control                                                       *)

\* The kinds of node a close icon can be: the library's default icon element,
\* a text node, an element without onClick, an element whose onClick only
\* observes, and an element whose onClick calls e.preventDefault().
IconNodes == {"default", "text", "element", "elementOnClick", "elementPrevent"}

\* React.isValidElement(iconNode)
isValidElement(iconNode) == iconNode # "text"

\* originProps?.onClick of an icon element
OriginOnClick(iconNode) ==
    CASE iconNode = "elementOnClick" -> "plain"
      [] iconNode = "elementPrevent" -> "prevent"
      [] OTHER -> Absent

\* pickClosable(tag): the closable and closeIcon keys of the context's tag entry
pickClosable(c) == [closable |-> c.tagClosable, closeIcon |-> c.tagCloseIcon]

\* useClosable: the icon node handed to customCloseIconRender, "null" when
\* the tag has no close control.  The close control is enabled by the
\* closable prop; with the prop omitted defaultClosable decides.  The icon is
\* the closeIcon prop, else the context's, else the default icon.
useClosable(closable, closeIcon, defaultClosable, context) ==
    LET mergedClosable == IF closable = Absent THEN defaultClosable ELSE closable = "true"
        iconNode == IF closeIcon # Absent THEN closeIcon
                    ELSE IF context.closeIcon # Absent THEN context.closeIcon
                    ELSE "default"
    IN  IF mergedClosable THEN iconNode ELSE "null"

\* replaceElement(element, replacement, props): a valid element is cloned
\* with the new props, anything else is replaced
replaceElement(element, replacement, cloned) ==
    IF isValidElement(element) THEN cloned ELSE replacement

NoCloseIcon == [wrapper |-> "null", icon |-> "null"]

\* customCloseIconRender: either the <span onClick={handleCloseClick}> around
\* the node, or the node cloned with the composed onClick
customCloseIconRender(iconNode) ==
    replaceElement(iconNode,
                   [wrapper |-> "span", icon |-> iconNode],
                   [wrapper |-> "clone", icon |-> iconNode])

\* mutant: the call passes defaultClosable: true
mergedCloseIcon_DefaultClosable(p, c) ==
    LET iconNode == useClosable(p.closable, p.closeIcon, TRUE, pickClosable(c))
    IN  IF iconNode = "null" THEN NoCloseIcon ELSE customCloseIconRender(iconNode)

\* the useClosable call of the Tag: [, mergedCloseIcon]
mergedCloseIcon(p, c) ==
    LET iconNode == useClosable(p.closable, p.closeIcon, FALSE, pickClosable(c))
    IN  IF iconNode = "null" THEN NoCloseIcon ELSE customCloseIconRender(iconNode)

\* children && children.type, for the kinds of children modelled
ChildType(children) ==
    CASE children = "a" -> "a"
      [] children = "span>a" -> "span"
      [] OTHER -> Undefined

\* mutant: any onClick counts, function or not
isNeedWave_AnyOnClick(p) ==
    \/ p.onClick # Absent
    \/ (Truthy(p.children) /\ ChildType(p.children) = "a")

isNeedWave(p) ==
    \/ p.onClick = "function"
    \/ (Truthy(p.children) /\ ChildType(p.children) = "a")

\* what a call of InternalTag returns
InternalTag(p, c, vis) ==
    [ className       |-> tagClassName(p, c, vis),
      backgroundColor |-> tagStyle(p, c),
      closeIcon       |-> mergedCloseIcon(p, c),
      wave            |-> isNeedWave(p) ]

-----------------------------------------------------------------------------
(* Event handlers.  A click is a record: the event's two flags, the trace  *)
(* of what ran, and the visibility state after the setVisible calls made.  *)

NewEvent(vis) ==
    [defaultPrevented |-> FALSE, propagationStopped |-> FALSE, log |-> <<>>, vis |-> vis]

Logged(e, what) == [e EXCEPT !.log = Append(@, what)]

\* a callback of the host: "plain" only observes, "prevent" calls e.preventDefault()
CallHost(fn, name, e) ==
    CASE fn = Absent -> e
      [] fn = "prevent" -> [Logged(e, name) EXCEPT !.defaultPrevented = TRUE]
      [] OTHER -> Logged(e, name)

stopPropagation(e) == [Logged(e, "stopPropagation") EXCEPT !.propagationStopped = TRUE]

setVisible(e, v) == [Logged(e, "setVisible") EXCEPT !.vis = v]

\* mutant: the default-prevented flag is not consulted
handleCloseClick_IgnorePrevented(p, e) ==
    LET e1 == stopPropagation(e)
        e2 == CallHost(p.onClose, "onClose", e1)
    IN  setVisible(Logged(e2, "defaultPrevented?"), "false")

\* mutant: e.stopPropagation() is missing
handleCloseClick_NoStopPropagation(p, e) ==
    LET e2 == CallHost(p.onClose, "onClose", e)
        e3 == Logged(e2, "defaultPrevented?")
    IN  IF e3.defaultPrevented THEN e3 ELSE setVisible(e3, "false")

handleCloseClick(p, e) ==
    LET e1 == stopPropagation(e)
        e2 == CallHost(p.onClose, "onClose", e1)
        e3 == Logged(e2, "defaultPrevented?")
    IN  IF e3.defaultPrevented THEN e3 ELSE setVisible(e3, "false")

\* mutant: an icon with an onClick of its own keeps it instead of getting
\* the composed handler
ClonedOnClick_OriginOnly(iconNode, p, e) ==
    IF OriginOnClick(iconNode) # Absent
    THEN CallHost(OriginOnClick(iconNode), "icon.onClick", e)
    ELSE handleCloseClick(p, e)

\* the onClick given to the cloned icon element
ClonedOnClick(iconNode, p, e) ==
    handleCloseClick(p, CallHost(OriginOnClick(iconNode), "icon.onClick", e))

\* the onClick of the close control as rendered
CloseIconOnClick(icon, p, e) ==
    IF icon.wrapper = "clone" THEN ClonedOnClick(icon.icon, p, e)
    ELSE handleCloseClick(p, e)

\* <span {...props}>: the tag's own onClick, reached by an event that bubbles
TagOnClick(p, e) ==
    IF ~e.propagationStopped /\ p.onClick = "function" THEN Logged(e, "tag.onClick") ELSE e

\* mutant: without the visible prop the effect resets the state to true
SyncVisible_ResetWhenAbsent(p, vis) == IF VisibleInProps(p) THEN PropVisible(p) ELSE "true"

\* the body of the prop-sync effect
SyncVisible(p, vis) == IF VisibleInProps(p) THEN PropVisible(p) ELSE vis

\* mutant: an empty dependency list, the effect runs on mount only
EffectRuns_MountOnly(p, deps) == deps = "unset"

\* useEffect(..., [props.visible]): the body runs when the dependency differs
\* from the one of the last run, and on mount
EffectRuns(p, deps) == deps # PropVisible(p)

-----------------------------------------------------------------------------
(* Inputs: the values each prop and each context entry is drawn from       *)

PropDom ==
    [ color     |-> {Absent, "", "red", "blue-inverse", "success", "#f50", "has-color", "hidden"},
      styleBg   |-> {Absent, Undefined, "blue"},
      className |-> {Absent, "custom"},
      bordered  |-> BOOLEAN,
      children  |-> {Absent, "", "text", "a", "span>a", "array"},
      onClick   |-> {Absent, "function", "non-function"},
      visible   |-> {Absent, "true", "false", Undefined},
      onClose   |-> {Absent, "plain", "prevent"},
      closable  |-> {Absent, "true", "false"},
      closeIcon |-> {Absent} \cup (IconNodes \ {"default"}) ]

CtxDom ==
    [ direction    |-> {"ltr", "rtl"},
      tagStyleBg   |-> {Absent, "green"},
      tagClassName |-> {Absent, "ctx-custom"},
      tagClosable  |-> {Absent, "true"},
      tagCloseIcon |-> {Absent, "elementOnClick"} ]

\* <Tag>text</Tag> under an empty ConfigProvider
DefaultProps ==
    [ color |-> Absent, styleBg |-> Absent, className |-> Absent, bordered |-> TRUE,
      children |-> "text", onClick |-> Absent, visible |-> Absent, onClose |-> Absent,
      closable |-> Absent, closeIcon |-> Absent ]

DefaultCtx ==
    [ direction |-> "ltr", tagStyleBg |-> Absent, tagClassName |-> Absent,
      tagClosable |-> Absent, tagCloseIcon |-> Absent ]

\* the props that decide the visibility life cycle, and those that only
\* decide what a render returns
LifecycleProps == {"visible", "onClose", "closable", "closeIcon", "onClick"}
LifecycleCtx   == {"tagClosable", "tagCloseIcon"}
RenderProps    == {"color", "styleBg", "className", "bordered", "children", "onClick"}
RenderCtx      == {"direction", "tagStyleBg", "tagClassName"}

PD(F, f) == IF f \in F THEN PropDom[f] ELSE {DefaultProps[f]}
CD(F, f) == IF f \in F THEN CtxDom[f] ELSE {DefaultCtx[f]}

PropsOver(F) ==
    { [ color |-> a, styleBg |-> b, className |-> c, bordered |-> d, children |-> e,
        onClick |-> f, visible |-> g, onClose |-> h, closable |-> i, closeIcon |-> j ] :
      a \in PD(F, "color"), b \in PD(F, "styleBg"), c \in PD(F, "className"),
      d \in PD(F, "bordered"), e \in PD(F, "children"), f \in PD(F, "onClick"),
      g \in PD(F, "visible"), h \in PD(F, "onClose"), i \in PD(F, "closable"),
      j \in PD(F, "closeIcon") }

CtxOver(F) ==
    { [ direction |-> a, tagStyleBg |-> b, tagClassName |-> c, tagClosable |-> d,
        tagCloseIcon |-> e ] :
      a \in CD(F, "direction"), b \in CD(F, "tagStyleBg"), c \in CD(F, "tagClassName"),
      d \in CD(F, "tagClosable"), e \in CD(F, "tagCloseIcon") }

NoClick == [target |-> "none", log |-> <<>>, before |-> "true", after |-> "true"]

-----------------------------------------------------------------------------
(* The life of one Tag instance                                            *)

\* mount: the first call of InternalTag, with the state useState(true) gives
Mount(P, C) ==
    /\ props \in P
    /\ ctx \in C
    /\ visible = "true"
    /\ effectDeps = "unset"
    /\ phase = "effects"
    /\ rendered = InternalTag(props, ctx, "true")
    /\ lastClick = NoClick
    /\ synced = "never"
    /\ closedSince = FALSE

\* the host renders the tag again, with one prop changed or with none
Rerender(F) ==
    /\ phase = "idle"
    /\ \E f \in F : \E v \in PropDom[f] : props' = [props EXCEPT ![f] = v]
    /\ rendered' = InternalTag(props', ctx, visible)
    /\ phase' = "effects"
    /\ UNCHANGED <<ctx, visible, effectDeps, lastClick, synced, closedSince>>

\* the config context changes, which renders the tag again
RerenderCtx(F) ==
    /\ phase = "idle"
    /\ \E f \in F : \E v \in CtxDom[f] : ctx' = [ctx EXCEPT ![f] = v]
    /\ ctx' # ctx
    /\ rendered' = InternalTag(props, ctx', visible)
    /\ phase' = "effects"
    /\ UNCHANGED <<props, visible, effectDeps, lastClick, synced, closedSince>>

\* the passive effects of the last render
RunEffects ==
    /\ phase = "effects"
    /\ LET runs == EffectRuns(props, effectDeps)
           vis  == IF runs THEN SyncVisible(props, visible) ELSE visible
       IN  /\ visible' = vis
           /\ phase' = IF vis # visible THEN "dirty" ELSE "idle"
           /\ synced' = IF runs /\ VisibleInProps(props) THEN PropVisible(props) ELSE synced
           /\ closedSince' = IF runs /\ VisibleInProps(props) THEN FALSE ELSE closedSince
    /\ effectDeps' = PropVisible(props)
    /\ UNCHANGED <<props, ctx, rendered, lastClick>>

\* the render a state change schedules
StateRender ==
    /\ phase = "dirty"
    /\ rendered' = InternalTag(props, ctx, visible)
    /\ phase' = "effects"
    /\ UNCHANGED <<props, ctx, visible, effectDeps, lastClick, synced, closedSince>>

\* a click on the close control
CloseClick ==
    /\ phase = "idle"
    /\ rendered.closeIcon # NoCloseIcon
    /\ LET e == TagOnClick(props, CloseIconOnClick(rendered.closeIcon, props, NewEvent(visible)))
           called == \E n \in 1..Len(e.log) : e.log[n] = "setVisible"
       IN  /\ visible' = e.vis
           /\ lastClick' = [target |-> "close", log |-> e.log, before |-> visible, after |-> e.vis]
           /\ phase' = IF e.vis # visible THEN "dirty" ELSE "idle"
           /\ closedSince' = (closedSince \/ called)
    /\ UNCHANGED <<props, ctx, effectDeps, rendered, synced>>

\* a click on the tag outside the close control
BodyClick ==
    /\ phase = "idle"
    /\ LET e == TagOnClick(props, NewEvent(visible))
       IN  /\ visible' = e.vis
           /\ lastClick' = [target |-> "body", log |-> e.log, before |-> visible, after |-> e.vis]
    /\ UNCHANGED <<props, ctx, effectDeps, phase, rendered, synced, closedSince>>

Init == Mount(PropsOver(LifecycleProps), CtxOver(LifecycleCtx))

Next ==
    \/ Rerender(LifecycleProps)
    \/ RerenderCtx(LifecycleCtx)
    \/ RunEffects
    \/ StateRender
    \/ CloseClick
    \/ BodyClick

Spec == Init /\ [][Next]_vars

\* the same instance with the life-cycle props fixed to a closable,
\* uncontrolled tag and the props that decide the render output varying
InitRender ==
    Mount({ [p EXCEPT !.closable = "true"] : p \in PropsOver(RenderProps) }, CtxOver(RenderCtx))

NextRender ==
    \/ Rerender(RenderProps)
    \/ RerenderCtx(RenderCtx)
    \/ RunEffects
    \/ StateRender
    \/ CloseClick
    \/ BodyClick

SpecRender == InitRender /\ [][NextRender]_vars

-----------------------------------------------------------------------------
(* Properties                                                              *)

Hidden(r) == (prefixCls \o "-hidden") \in r.className
HasColorClass(r) == (prefixCls \o "-has-color") \in r.className
ColorClass(p, r) == (prefixCls \o "-" \o ColorSuffix(p.color)) \in r.className

Count(L, a) == Cardinality({ i \in 1..Len(L) : L[i] = a })
Before(L, a, b) == \A i, j \in 1..Len(L) : (L[i] = a /\ L[j] = b) => i < j

\* the inline background the style prop and the context's tag style leave
StyleBackground(fallback) ==
    IF props.styleBg # Absent THEN props.styleBg
    ELSE IF ctx.tagStyleBg # Absent THEN ctx.tagStyleBg
    ELSE fallback

\* the close control rendered is an element that came with its own onClick
IconHasOwnOnClick ==
    /\ rendered.closeIcon.wrapper = "clone"
    /\ OriginOnClick(rendered.closeIcon.icon) # Absent

IconPrevents ==
    /\ rendered.closeIcon.wrapper = "clone"
    /\ OriginOnClick(rendered.closeIcon.icon) = "prevent"

\* C1: whenever a boolean `visible` prop is supplied and the tag has settled
\* (renders and effects flushed), the tag is displayed hidden exactly when
\* the supplied value is false; a close click never hides a tag whose
\* supplied value is true.
C1_DisplayMirrorsVisibleProp ==
    (phase = "idle" /\ props.visible \in {"true", "false"})
        => (Hidden(rendered) <=> props.visible = "false")

\* C2: when props.visible differs from its value at the last run of the
\* effect and the prop is present, the effect sets the state to the prop's
\* value v whatever the state was; from then until a close click calls
\* setVisible the state is v, and so is what every render since displays.
C2_PropSyncOverrides ==
    /\ []( (synced # "never" /\ ~closedSince) =>
             /\ visible = synced
             /\ (phase # "dirty" => (Hidden(rendered) <=> ~Truthy(synced))) )
    /\ [][ (phase = "effects" /\ VisibleInProps(props) /\ effectDeps # PropVisible(props))
             => visible' = PropVisible(props) ]_vars

\* a close click hid the tag, and a later change of the prop showed it again
C2_Witness ==
    /\ lastClick.target = "close" /\ lastClick.before = "true" /\ lastClick.after = "false"
    /\ synced = "true" /\ ~closedSince
    /\ visible = "true" /\ phase = "idle" /\ ~Hidden(rendered)

\* C3 as stated: without the visible prop and without onClose every click on
\* the close control sets the state to false, whatever the close icon is.
C3_EveryCloseClickHides ==
    [][ (CloseClick /\ ~VisibleInProps(props) /\ props.onClose = Absent)
          => visible' = "false" ]_vars

\* C3, amended: without the visible prop and without onClose a click on the
\* close control sets the state to false, and the next render carries the
\* hidden class, unless the close icon is an element whose own onClick
\* prevents the event's default; then the click leaves the state as it was.
C3_CloseClickHidesUnlessIconPrevents ==
    [][ /\ (CloseClick /\ ~VisibleInProps(props) /\ props.onClose = Absent)
            => IF IconPrevents THEN visible' = visible ELSE visible' = "false"
        /\ (StateRender /\ visible = "false") => Hidden(rendered') ]_vars

\* a custom icon's own onClick ran, no onClose did, and the tag is hidden
C3_Witness ==
    /\ lastClick.target = "close" /\ lastClick.before = "true" /\ lastClick.after = "false"
    /\ Count(lastClick.log, "icon.onClick") = 1 /\ Count(lastClick.log, "onClose") = 0
    /\ ~VisibleInProps(props) /\ synced = "never"
    /\ phase = "idle" /\ Hidden(rendered)

\* C4: a close click whose onClose prevents the event's default leaves the
\* visibility state unchanged and calls setVisible not at all, and onClose
\* has run exactly once in that click.
C4_PreventedClose ==
    [][ (CloseClick /\ props.onClose = "prevent")
          => /\ visible' = visible
             /\ Count(lastClick'.log, "setVisible") = 0
             /\ Count(lastClick'.log, "onClose") = 1 ]_vars

\* onClose alone prevented the default of a click on a visible tag
C4_Witness ==
    /\ lastClick.target = "close" /\ lastClick.before = "true" /\ lastClick.after = "true"
    /\ Count(lastClick.log, "onClose") = 1 /\ Count(lastClick.log, "icon.onClick") = 0
    /\ Count(lastClick.log, "setVisible") = 0
    /\ visible = "true" /\ ~Hidden(rendered)

\* C5 as stated: a preset or status color gives the class <prefix>-<color>,
\* not <prefix>-has-color, and no inline background color, whatever the
\* style prop and the context's tag style are.
C5_PresetNoInlineBackground ==
    isInternalColor(props.color) =>
        /\ ColorClass(props, rendered)
        /\ ~HasColorClass(rendered)
        /\ rendered.backgroundColor = Undefined

\* C5, amended: a preset or status color gives the class <prefix>-<color>,
\* not <prefix>-has-color, and contributes no inline background color: the
\* inline background is the style prop's backgroundColor if it has one, else
\* the context tag style's if it has one, else none.
C5_PresetClassAndStyleBackground ==
    isInternalColor(props.color) =>
        /\ ColorClass(props, rendered)
        /\ ~HasColorClass(rendered)
        /\ rendered.backgroundColor = StyleBackground(Undefined)

\* a status color, no background from any style: class switch, nothing inline
C5_Witness ==
    /\ props.color = "success"
    /\ props.styleBg = Absent /\ ctx.tagStyleBg = Absent
    /\ (prefixCls \o "-success") \in rendered.className
    /\ rendered.backgroundColor = Undefined

\* C6 as stated: a color string that is neither preset nor status gives the
\* class <prefix>-has-color, not <prefix>-<color>, and an inline background
\* equal to the color, whatever the style prop and the context's tag style.
C6_ArbitraryColorInline ==
    (props.color # Absent /\ ~isInternalColor(props.color)) =>
        /\ HasColorClass(rendered)
        /\ ~ColorClass(props, rendered)
        /\ rendered.backgroundColor = props.color

\* C6, amended: a non-empty color string that is neither preset nor status
\* gives the class <prefix>-has-color; the inline background is the style
\* prop's backgroundColor if it has one, else the context tag style's if it
\* has one, else the color; and <prefix>-<color> is carried only when the
\* color spells a modifier the tag carries anyway (has-color, hidden on a
\* hidden tag, rtl, borderless) or a class name the host supplies.
C6_ArbitraryColorUnlessOverridden ==
    (Truthy(props.color) /\ ~isInternalColor(props.color)) =>
        /\ HasColorClass(rendered)
        /\ rendered.backgroundColor = StyleBackground(props.color)
        /\ ColorClass(props, rendered) =>
              \/ props.color = "has-color"
              \/ props.color = "hidden" /\ (phase # "dirty" => ~Truthy(visible))
              \/ props.color = "rtl" /\ ctx.direction = "rtl"
              \/ props.color = "borderless" /\ ~props.bordered
              \/ (prefixCls \o "-" \o props.color)
                     \in StringArg(props.className) \cup StringArg(ctx.tagClassName)

\* an arbitrary color with no background from any style
C6_Witness ==
    /\ props.color = "#f50"
    /\ props.styleBg = Absent /\ ctx.tagStyleBg = Absent
    /\ HasColorClass(rendered)
    /\ rendered.backgroundColor = "#f50"

C8_WaveIffClickableOrLink ==
    rendered.wave <=> (props.onClick = "function" \/ props.children = "a")

\* a link as the only child, no onClick: wrapped
C8_Witness ==
    /\ props.onClick = Absent /\ props.children = "a" /\ rendered.wave

\* C9: in a click on the close control the icon's own onClick (if any) runs
\* first, then propagation is stopped (in every close click), then onClose
\* runs exactly once if supplied and not at all otherwise, then the
\* default-prevented flag is read, then setVisible(false) is called; the
\* tag's own onClick never runs.
C9_CloseClickOrder ==
    [][ CloseClick =>
          LET L == lastClick'.log IN
          /\ IconHasOwnOnClick => (Len(L) > 0 /\ L[1] = "icon.onClick")
          /\ Count(L, "icon.onClick") = (IF IconHasOwnOnClick THEN 1 ELSE 0)
          /\ Count(L, "stopPropagation") = 1
          /\ Count(L, "onClose") = (IF props.onClose # Absent THEN 1 ELSE 0)
          /\ Count(L, "defaultPrevented?") = 1
          /\ Count(L, "tag.onClick") = 0
          /\ Before(L, "icon.onClick", "stopPropagation")
          /\ Before(L, "stopPropagation", "onClose")
          /\ Before(L, "onClose", "defaultPrevented?")
          /\ Before(L, "defaultPrevented?", "setVisible")
          /\ Count(L, "setVisible") = 1 => visible' = "false" ]_vars

\* all five steps ran, on a tag that has an onClick of its own
C9_Witness ==
    /\ lastClick.log = <<"icon.onClick", "stopPropagation", "onClose",
                         "defaultPrevented?", "setVisible">>
    /\ props.onClick = "function" /\ ~VisibleInProps(props)
    /\ phase = "dirty" /\ visible = "false"

\* C10: the state is true on mount; as long as the effect has never seen the
\* visible prop the state changes only from true to false, by a close click;
\* and a step that is no close click and leaves the tag without the visible
\* prop (the render that removes the prop, the effect after it) leaves the
\* state as it was.
C10_HiddenAbsorbing ==
    /\ [](effectDeps = "unset" => visible = "true")
    /\ [][ /\ synced' = "never" =>
                \/ visible' = visible
                \/ CloseClick /\ visible = "true" /\ visible' = "false"
           /\ (~VisibleInProps(props') /\ ~CloseClick) => visible' = visible ]_vars

\* the prop was supplied as false and then removed: the tag is still hidden
C10_Witness ==
    /\ ~VisibleInProps(props) /\ effectDeps = Undefined
    /\ synced = "false" /\ ~closedSince
    /\ phase = "idle" /\ visible = "false" /\ Hidden(rendered)

====
